---- MODULE Spec2Model ----
(***************************************************************************)
(* Child-exit observation subsystem of libportable-pty                     *)
(* (pkgs/pty/portable_pty/rust/src/lib.rs): the signal-safe PID registry,  *)
(* the SIGCHLD handler and its installer, the handle object and the        *)
(* wait / wait_blocking / kill / close protocol, together with the part of *)
(* the kernel they talk to (process table, one pending SIGCHLD, per-thread *)
(* signal masks) and the foreign reapers of the host runtime.              *)
(*                                                                         *)
(* Thread "T1" is the caller of the C API.  Thread "T2" is any other       *)
(* thread of the host process: it never calls the API but, like every      *)
(* thread that has not masked SIGCHLD, it may be the one the kernel picks  *)
(* to run a SIGCHLD handler.  While a handler runs on a thread that        *)
(* thread's own code is suspended.                                         *)
(***************************************************************************)
EXTENDS Integers, Sequences, FiniteSets, TLC

\* ------------------------------------------------------------------ bounds
\* Registry capacity of the model (the source's MAX_TRACKED_PIDS is 64).
MAX_TRACKED_PIDS == 2
\* Handles the caller may hold open at once.
NumHandles == 1
\* Size of the kernel's PID space (small, so that PIDs are reused).
NumPids == 2
\* Successful spawn_command calls in one behaviour.
MaxSpawns == 3
\* Unrelated processes started in one behaviour.
MaxAliens == 1
\* Times a third party replaces the SIGCHLD disposition.
MaxOverrides == 1
\* API calls the caller makes in one behaviour, not counting its calls of the
\* non-blocking wait, which it may repeat for ever, nor calls with a null
\* argument.
MaxCalls == 4
\* Threads that are inside sigchld_handler at the same time.
MaxHandlers == 1
\* Largest si_status of the siginfo_t values the decoding is checked for.
MaxSiStatus == 260

Slots == 1..MAX_TRACKED_PIDS
Handles == 1..NumHandles
Pids == 1..NumPids
Threads == {"T1", "T2"}
Callers == {"T1"}

\* --------------------------------------------------------------- constants
SLOT_EMPTY == -2147483647
SLOT_RUNNING == SLOT_EMPTY - 1

\* Signal arguments the caller passes to kill: the null signal, SIGKILL and a
\* number that is no signal (kill(2) fails with EINVAL).
Signals == {0, 9, 99}
\* Status words a child ends with on its own: exit(7).  (Deaths by signal come
\* from kill and close.)
DeathWords == {7 * 256}

None == << >>
Some(x) == << x >>

\* ------------------------------------------------------- status encoding
WIFEXITED(w) == (w % 128) = 0
WEXITSTATUS(w) == (w \div 256) % 256
WTERMSIG(w) == w % 128
WIFSIGNALED(w) == (w % 128) # 0 /\ (w % 128) # 127

\* The decoding every path of the library applies to a raw waitpid word.
decode_status(raw) ==
  IF WIFEXITED(raw) THEN WEXITSTATUS(raw)
  ELSE IF WIFSIGNALED(raw) THEN 128 + WTERMSIG(raw)
  ELSE -1

\* status.exit_code() of the underlying PTY library, which the specification
\* assumes follows the same exit-code convention.
upstream_exit_code(raw) == decode_status(raw)

\* siginfo_t of the SIGCHLD the kernel generates for a child ending with w.
SigInfo(p, w) ==
  IF WIFEXITED(w)
  THEN [si_pid |-> p, si_code |-> "CLD_EXITED", si_status |-> WEXITSTATUS(w)]
  ELSE [si_pid |-> p,
        si_code |-> IF w >= 128 THEN "CLD_DUMPED" ELSE "CLD_KILLED",
        si_status |-> WTERMSIG(w)]

\* An encoding of siginfo that takes every termination for a normal exit.
synth_status_exit_only(si_code, si_status) == (si_status % 256) * 256

\* Step 1 of the handler: the waitpid-style word synthesized from siginfo.
synth_status(si_code, si_status) ==
  IF si_code = "CLD_EXITED" THEN (si_status % 256) * 256
  ELSE (si_status % 128) + (IF si_code = "CLD_DUMPED" THEN 128 ELSE 0)

\* ------------------------------------------------------------------- state
VARIABLES
  proc,                 \* kernel process table, by PID
  pending,              \* the pending process-directed SIGCHLD: None or Some(siginfo)
  kicked,               \* per caller thread: the kernel told it to take the pending SIGCHLD
  disp,                 \* SIGCHLD disposition: "dfl", "plain", "foreign" or "ours"
  mask,                 \* per thread: SIGCHLD blocked by sigprocmask
  env,                  \* the host process: which of its behaviours are present
  PID_REGISTRY,         \* slot -> [pid, status]
  PREV_SIGCHLD_ACTION,  \* handler saved for chaining: "dfl", "plain", "foreign" or "ours"
  pty,                  \* handle -> [open, child, waited, child_pid, cached_exit_code]
  ct,                   \* per caller thread: position inside an API call, calls made
  hs,                   \* per thread: position inside sigchld_handler
  res,                  \* what the caller's last completed call returned
  truth,                \* per handle: Some(word) once its current child has ended
  first,                \* per handle: Some(code) of its first successful wait
  count                 \* [spawns, aliens, overrides] done so far

vars == << proc, pending, kicked, disp, mask, env, PID_REGISTRY, PREV_SIGCHLD_ACTION,
           pty, ct, hs, res, truth, first, count >>

kernel == << proc, pending, kicked, truth >>

\* The host processes considered.  `handler` is the SIGCHLD disposition the
\* host set before the library is first used ("foreign": a three-argument
\* handler looping on waitpid(-1, WNOHANG); "plain": a one-argument handler
\* that touches no process); `reaper`: a host thread loops on waitpid(-1, 0);
\* `threads`: threads other than the caller's have SIGCHLD unblocked, so the
\* kernel may pick one of them to run the handler; `aliens`: unrelated
\* processes come and go on the PIDs the library has recorded; `override`: a
\* third party replaces the SIGCHLD disposition later on.
Host(handler, reaper, threads, aliens, override) ==
  [handler |-> handler, reaper |-> reaper, threads |-> threads, aliens |-> aliens,
   override |-> override]
Hosts ==
  { Host("foreign", FALSE, TRUE, FALSE, FALSE),
    Host("dfl", TRUE, TRUE, TRUE, FALSE),
    Host("plain", FALSE, TRUE, FALSE, TRUE) }

FreeProc == [st |-> "free", kind |-> "none", word |-> 0, owner |-> 0]
ClosedPty == [open |-> FALSE, child |-> FALSE, waited |-> FALSE, child_pid |-> -1,
              cached_exit_code |-> None, reader |-> "", writer |-> "", unread |-> 0]
IdleCaller == [pc |-> "idle", h |-> 0, i |-> 0, om |-> FALSE, n |-> 0]
IdleHandler == [pc |-> "idle", info |-> None, i |-> 0, pid |-> 0, status |-> 0,
                flags |-> FALSE]
NoRes == [op |-> "none", h |-> 0, rc |-> "none", code |-> None, via |-> "none"]

\* PidSlot::new and the zeroed statics; no handle is open, no child exists.
\* The API is called by the threads in callers on the handles in handles.
Start(callers, handles) ==
  /\ proc = [p \in Pids |-> FreeProc]
  /\ pending = None
  /\ kicked = [t \in callers |-> FALSE]
  /\ env \in Hosts
  /\ disp = env.handler
  /\ PID_REGISTRY = [s \in Slots |-> [pid |-> 0, status |-> SLOT_EMPTY]]
  /\ PREV_SIGCHLD_ACTION = "dfl"
  /\ pty = [h \in handles |-> ClosedPty]
  /\ ct = [t \in callers |-> IdleCaller]
  /\ hs = [t \in Threads |-> IdleHandler]
  /\ res = NoRes
  /\ truth = [h \in handles |-> None]
  /\ first = [h \in handles |-> None]
  /\ count = [spawns |-> 0, aliens |-> 0, overrides |-> 0]

\* The program starts with SIGCHLD unblocked in every thread.
Init ==
  /\ Start(Callers, Handles)
  /\ mask = [t \in Threads |-> FALSE]

\* ------------------------------------------------------------------ kernel
IsChild(P, p) == p \in Pids /\ P[p].kind = "child"
IsZombie(P, p) == IsChild(P, p) /\ P[p].st = "zombie"
IsRunningChild(P, p) == IsChild(P, p) /\ P[p].st = "run"
Exists(P, p) == p \in Pids /\ P[p].st # "free"

\* The process table after waitpid reaped zombie p.
Reap(P, p) == [P EXCEPT ![p] = FreeProc]
\* The foreign handler's loop on waitpid(-1, WNOHANG): every zombie is reaped.
ReapAll(P) == [p \in Pids |-> IF IsZombie(P, p) THEN FreeProc ELSE P[p]]

\* The threads the kernel may wake for a SIGCHLD it generates: a caller thread
\* that has the signal unblocked, or some other thread of the host ("other",
\* also standing for nobody when no thread can take the signal yet).
Targets ==
  LET able == {t \in DOMAIN kicked : ~mask[t] /\ hs[t].pc = "idle"}
  IN able \cup (IF env.threads \/ able = {} THEN {"other"} ELSE {})

\* Process p ends with status word w: a child of ours becomes a zombie and
\* the kernel generates SIGCHLD, which is dropped if one is already pending
\* (standard signals do not queue); any other process just disappears.
Terminate(p, w) ==
  /\ proc[p].st = "run"
  /\ IF proc[p].kind = "child"
     THEN /\ proc' = [proc EXCEPT ![p].st = "zombie", ![p].word = w]
          /\ truth' = [h \in DOMAIN pty |-> IF proc[p].owner = h THEN Some(w) ELSE truth[h]]
          /\ IF pending = None
             THEN /\ pending' = Some(SigInfo(p, w))
                  /\ \E target \in Targets : kicked' = [t \in DOMAIN kicked |-> t = target]
             ELSE UNCHANGED << pending, kicked >>
     ELSE /\ proc' = [proc EXCEPT ![p] = FreeProc]
          /\ UNCHANGED << pending, kicked, truth >>

\* What kill(pid, sig) can do: the value it returns and whether the target dies.
KillOutcomes(pid, sig) ==
  IF sig \notin 0..64 THEN {[ret |-> "EINVAL", dies |-> FALSE]}
  ELSE IF ~Exists(proc, pid) THEN {[ret |-> "ESRCH", dies |-> FALSE]}
  ELSE IF proc[pid].st = "zombie" THEN {[ret |-> "ok", dies |-> FALSE]}
  ELSE (IF proc[pid].kind = "alien" THEN {[ret |-> "EPERM", dies |-> FALSE]} ELSE {})
       \cup (CASE sig = 0 -> {[ret |-> "ok", dies |-> FALSE]}
               [] sig = 9 -> {[ret |-> "ok", dies |-> TRUE]}
               [] OTHER -> {[ret |-> "ok", dies |-> TRUE], [ret |-> "ok", dies |-> FALSE]})

\* The kernel's side of kill(pid, sig) with outcome o.
KillEffect(pid, sig, o) ==
  IF o.dies THEN Terminate(pid, sig) ELSE UNCHANGED kernel

\* ------------------------------------------------------------- environment
\* A running child ends on its own.
ChildExit(p, w) ==
  /\ IsRunningChild(proc, p)
  /\ Terminate(p, w)
  /\ UNCHANGED << disp, mask, env, PID_REGISTRY, PREV_SIGCHLD_ACTION,
                  pty, ct, hs, res, first, count >>

\* Some open handle or some registry slot holds PID p.
Recorded(p) ==
  \/ \E h \in DOMAIN pty : pty[h].open /\ pty[h].child_pid = p
  \/ \E s \in Slots : PID_REGISTRY[s].pid = p

\* An unrelated process is started and the kernel gives it a free PID.
AlienStart(p) ==
  /\ env.aliens
  /\ proc[p].st = "free"
  /\ Recorded(p)
  /\ count.aliens < MaxAliens
  /\ proc' = [proc EXCEPT ![p] = [st |-> "run", kind |-> "alien", word |-> 0, owner |-> 0]]
  /\ count' = [count EXCEPT !.aliens = @ + 1]
  /\ UNCHANGED << pending, kicked, disp, mask, env, PID_REGISTRY, PREV_SIGCHLD_ACTION,
                  pty, ct, hs, res, truth, first >>

\* An unrelated process ends.
AlienExit(p) ==
  /\ proc[p].st = "run" /\ proc[p].kind = "alien"
  /\ Terminate(p, 0)
  /\ UNCHANGED << disp, mask, env, PID_REGISTRY, PREV_SIGCHLD_ACTION,
                  pty, ct, hs, res, first, count >>

\* The host's reaper thread returns from waitpid(-1, 0) with one zombie.
ForeignThreadReap(p) ==
  /\ env.reaper
  /\ IsZombie(proc, p)
  /\ proc' = Reap(proc, p)
  /\ UNCHANGED << pending, kicked, disp, mask, env, PID_REGISTRY, PREV_SIGCHLD_ACTION,
                  pty, ct, hs, res, truth, first, count >>

\* A third party installs its own SIGCHLD handler over the current one.
ThirdPartyInstall ==
  /\ env.override
  /\ disp = "ours"
  /\ count.overrides < MaxOverrides
  /\ disp' = "foreign"
  /\ count' = [count EXCEPT !.overrides = @ + 1]
  /\ UNCHANGED << proc, pending, kicked, mask, env, PID_REGISTRY, PREV_SIGCHLD_ACTION,
                  pty, ct, hs, res, truth, first >>

\* --------------------------------------------------------- SIGCHLD handler
\* A pending SIGCHLD is due to caller thread t: the kernel makes t run the
\* handler before t executes anything else of its own.
Due(t) == t \in DOMAIN kicked /\ kicked[t] /\ pending # None /\ ~mask[t]

\* Thread t executes its own code: it is not inside a signal handler and no
\* signal is due to it.
CanRun(t) == hs[t].pc = "idle" /\ ~Due(t)

\* Caller thread t has just unblocked SIGCHLD, by sigprocmask or by returning
\* from a handler: it notices a SIGCHLD that is still pending.
Notice(t, unblocked) ==
  kicked' = [c \in DOMAIN kicked |-> IF c = t THEN pending # None /\ unblocked ELSE kicked[c]]

\* The slot the scans of the registry stop at: the first one holding pid.
FirstSlot(pid) ==
  IF \E s \in Slots : PID_REGISTRY[s].pid = pid
  THEN CHOOSE s \in Slots : /\ PID_REGISTRY[s].pid = pid
                            /\ \A r \in Slots : PID_REGISTRY[r].pid = pid => s <= r
  ELSE 0

\* The handler moves on to slot i of the sweep, or to the chain step after the last.
SweepAt(t, i) ==
  hs' = [hs EXCEPT ![t] = IF i > MAX_TRACKED_PIDS
                          THEN [IdleHandler EXCEPT !.pc = "h3_flags", !.info = hs[t].info]
                          ELSE [IdleHandler EXCEPT !.pc = "h2_check", !.info = hs[t].info,
                                                   !.i = i]]

\* The kernel delivers the pending SIGCHLD to thread t, which has not blocked
\* it and is not already inside a SIGCHLD handler: a caller thread the kernel
\* has told to take it, or any other thread of the host.
Deliver(t) ==
  /\ pending # None
  /\ IF t \in DOMAIN kicked THEN kicked[t] ELSE env.threads
  /\ ~mask[t]
  /\ hs[t].pc = "idle"
  /\ disp = "ours" => Cardinality({u \in Threads : hs[u].pc # "idle"}) < MaxHandlers
  /\ pending' = None
  /\ kicked' = [c \in DOMAIN kicked |-> FALSE]
  /\ CASE disp = "ours" ->
            /\ hs' = [hs EXCEPT ![t] = [IdleHandler EXCEPT !.pc = "h1_load", !.info = pending]]
            /\ UNCHANGED proc
       [] disp = "foreign" ->
            /\ proc' = ReapAll(proc)
            /\ UNCHANGED hs
       [] OTHER ->
            UNCHANGED << proc, hs >>
  /\ UNCHANGED << disp, mask, env, PID_REGISTRY, PREV_SIGCHLD_ACTION,
                  pty, ct, res, truth, first, count >>

\* Step 1, the scan: find the slot whose pid is si_pid.
HandlerLoad(t) ==
  /\ hs[t].pc = "h1_load"
  /\ LET si == hs[t].info[1]
         s == FirstSlot(si.si_pid)
     IN IF si.si_pid > 0 /\ si.si_code \in {"CLD_EXITED", "CLD_KILLED", "CLD_DUMPED"} /\ s # 0
        THEN hs' = [hs EXCEPT ![t].pc = "h1_cas", ![t].i = s]
        ELSE SweepAt(t, 1)
  /\ UNCHANGED << proc, pending, kicked, disp, mask, env, PID_REGISTRY, PREV_SIGCHLD_ACTION,
                  pty, ct, res, truth, first, count >>

\* Step 1, the store: compare_exchange(SLOT_RUNNING, raw_status) on that slot.
HandlerCas(t) ==
  /\ hs[t].pc = "h1_cas"
  /\ LET si == hs[t].info[1]
         s == hs[t].i
     IN PID_REGISTRY' =
          IF PID_REGISTRY[s].status = SLOT_RUNNING
          THEN [PID_REGISTRY EXCEPT ![s].status = synth_status(si.si_code, si.si_status)]
          ELSE PID_REGISTRY
  /\ SweepAt(t, 1)
  /\ UNCHANGED << proc, pending, kicked, disp, mask, env, PREV_SIGCHLD_ACTION,
                  pty, ct, res, truth, first, count >>

\* Step 2, per slot: skip it unless it holds a pid and is still SLOT_RUNNING.
HandlerCheck(t) ==
  /\ hs[t].pc = "h2_check"
  /\ LET s == hs[t].i
     IN IF PID_REGISTRY[s].pid <= 0 \/ PID_REGISTRY[s].status # SLOT_RUNNING
        THEN SweepAt(t, s + 1)
        ELSE hs' = [hs EXCEPT ![t].pc = "h2_wait", ![t].pid = PID_REGISTRY[s].pid]
  /\ UNCHANGED << proc, pending, kicked, disp, mask, env, PID_REGISTRY, PREV_SIGCHLD_ACTION,
                  pty, ct, res, truth, first, count >>

\* Step 2, per slot: waitpid(pid, WNOHANG).
HandlerWaitpid(t) ==
  /\ hs[t].pc = "h2_wait"
  /\ LET p == hs[t].pid
     IN IF IsZombie(proc, p)
        THEN /\ proc' = Reap(proc, p)
             /\ hs' = [hs EXCEPT ![t].pc = "h2_store", ![t].status = proc[p].word]
        ELSE /\ SweepAt(t, hs[t].i + 1)
             /\ UNCHANGED proc
  /\ UNCHANGED << pending, kicked, disp, mask, env, PID_REGISTRY, PREV_SIGCHLD_ACTION,
                  pty, ct, res, truth, first, count >>

\* Step 2, per slot: slot.status.store(status) after waitpid returned the pid.
HandlerStore(t) ==
  /\ hs[t].pc = "h2_store"
  /\ PID_REGISTRY' = [PID_REGISTRY EXCEPT ![hs[t].i].status = hs[t].status]
  /\ SweepAt(t, hs[t].i + 1)
  /\ UNCHANGED << proc, pending, kicked, disp, mask, env, PREV_SIGCHLD_ACTION,
                  pty, ct, res, truth, first, count >>

\* sa_flags & SA_SIGINFO of a saved action: set for the three-argument handlers.
sa_siginfo(action) == action \in {"foreign", "ours"}

\* Step 3, first read of PREV_SIGCHLD_ACTION: `let flags = prev.sa_flags`.
\* The static is read field by field with no synchronisation, and
\* ensure_sigchld_handler on another thread may overwrite it in between.
HandlerFlags(t) ==
  /\ hs[t].pc = "h3_flags"
  /\ hs' = [hs EXCEPT ![t].pc = "h3_chain", ![t].flags = sa_siginfo(PREV_SIGCHLD_ACTION)]
  /\ UNCHANGED << proc, pending, kicked, disp, mask, env, PID_REGISTRY, PREV_SIGCHLD_ACTION,
                  pty, ct, res, truth, first, count >>

\* The call step 3 makes for the flags and the handler it has read: none for
\* SIG_DFL (SIG_IGN alike), else the three-argument form f(sig, info, ctx) when
\* the flags had SA_SIGINFO and the one-argument form f(sig) when not.
chain_call(flags, handler) ==
  IF handler = "dfl" THEN "none" ELSE IF flags THEN "three" ELSE "one"

\* Step 3, second read (`prev.sa_sigaction`) and the call: chain to the saved
\* previous handler and return.  A saved handler that is sigchld_handler
\* itself re-enters the handler.
HandlerChain(t) ==
  /\ hs[t].pc = "h3_chain"
  /\ LET call == chain_call(hs[t].flags, PREV_SIGCHLD_ACTION)
     IN CASE call # "none" /\ PREV_SIGCHLD_ACTION = "foreign" ->
               /\ proc' = ReapAll(proc)
               /\ hs' = [hs EXCEPT ![t] = IdleHandler]
               /\ Notice(t, ~mask[t])
          [] call # "none" /\ PREV_SIGCHLD_ACTION = "ours" ->
               /\ hs' = [hs EXCEPT ![t] = [IdleHandler EXCEPT !.pc = "h1_load",
                                                              !.info = hs[t].info]]
               /\ UNCHANGED << proc, kicked >>
          [] OTHER ->
               /\ hs' = [hs EXCEPT ![t] = IdleHandler]
               /\ Notice(t, ~mask[t])
               /\ UNCHANGED proc
  /\ UNCHANGED << pending, disp, mask, env, PID_REGISTRY, PREV_SIGCHLD_ACTION,
                  pty, ct, res, truth, first, count >>

\* ---------------------------------------------------------------- registry
\* lookup_cached_status: the decoded status of the first slot holding pid,
\* None when that slot is SLOT_RUNNING or SLOT_EMPTY or no slot holds pid.
lookup_cached_status(pid) ==
  LET s == FirstSlot(pid)
  IN IF s = 0 THEN None
     ELSE IF PID_REGISTRY[s].status = SLOT_RUNNING \/ PID_REGISTRY[s].status = SLOT_EMPTY
          THEN None
          ELSE Some(decode_status(PID_REGISTRY[s].status))

\* A lookup that takes the status out of the registry: the slot is released.
registry_hit_taken(pid) ==
  [PID_REGISTRY EXCEPT ![FirstSlot(pid)] = [pid |-> 0, status |-> SLOT_EMPTY]]

\* The registry after lookup_cached_status(pid) has found a concrete status:
\* the function only loads, the slot is left as it was found.
registry_after_hit(pid) == PID_REGISTRY

\* ------------------------------------------------------------ API plumbing
\* Thread t is between two calls and may make another one.
CanCall(t) == ct[t].pc = "idle" /\ CanRun(t) /\ ct[t].n < MaxCalls

\* The caller's state inside a call just entered, at position pc.
Enter(t, pc, h) == [IdleCaller EXCEPT !.pc = pc, !.h = h, !.n = ct[t].n]

\* The caller's state after its call `op` returned rc.
Back(t, op, rc) ==
  [IdleCaller EXCEPT !.n = IF op = "wait" THEN ct[t].n ELSE ct[t].n + 1]

\* The caller's call on handle h returns rc (and code, for a successful wait).
Return(t, op, h, rc, code, via) ==
  /\ ct' = [ct EXCEPT ![t] = Back(t, op, rc)]
  /\ res' = [op |-> op, h |-> h, rc |-> rc, code |-> code, via |-> via]
  /\ first' = IF op \in {"wait", "wait_blocking"} /\ rc = "Ok" /\ first[h] = None
              THEN [first EXCEPT ![h] = code]
              ELSE first

\* pty.cached_exit_code = Some(code), *out_status = code, return Ok.
CacheAndReturn(t, op, h, code, via) ==
  /\ pty' = [pty EXCEPT ![h].cached_exit_code = Some(code)]
  /\ Return(t, op, h, "Ok", Some(code), via)

\* The caller moves on to position pc of the call in progress.
Goto(t, pc) ==
  /\ ct' = [ct EXCEPT ![t].pc = pc]
  /\ UNCHANGED << res, first >>

At(t, pc) == ct[t].pc = pc /\ CanRun(t)

\* ------------------------------------------------------------------- open
\* portable_pty_open: a fresh handle with no child and no cached exit code.
Open(t, h) ==
  /\ CanCall(t)
  /\ ~pty[h].open
  /\ pty' = [pty EXCEPT ![h] = [ClosedPty EXCEPT !.open = TRUE]]
  /\ ct' = [ct EXCEPT ![t] = Back(t, "open", "Ok")]
  /\ res' = [NoRes EXCEPT !.op = "open", !.h = h, !.rc = "Ok"]
  /\ first' = [first EXCEPT ![h] = None]
  /\ truth' = [truth EXCEPT ![h] = None]
  /\ UNCHANGED << proc, pending, kicked, disp, mask, env, PID_REGISTRY, PREV_SIGCHLD_ACTION,
                  hs, count >>

\* portable_pty_child_pid on an open handle: the recorded PID, -1 before any spawn.
portable_pty_child_pid(h) == pty[h].child_pid

\* ------------------------------------------------------------------ spawn
\* portable_pty_spawn is entered; the next step is ensure_sigchld_handler.
SpawnStart(t, h) ==
  /\ CanCall(t)
  /\ pty[h].open
  /\ count.spawns < MaxSpawns
  /\ ct' = [ct EXCEPT ![t] = Enter(t, "sp_ens_read", h)]
  /\ res' = NoRes
  /\ UNCHANGED << proc, pending, kicked, disp, mask, env, PID_REGISTRY, PREV_SIGCHLD_ACTION,
                  pty, hs, truth, first, count >>

\* An installer that takes any handler it finds for its own and installs nothing.
is_ours_always(current) == TRUE

\* current.sa_sigaction == sigchld_handler as usize
is_ours(current) == current = "ours"

\* ensure_sigchld_handler, first half: sigaction(SIGCHLD, NULL, &current) and
\* the comparison with our handler.  `from` is "sp" (called by spawn) or "reg"
\* (called by register_pid).
EnsureRead(t, from) ==
  /\ At(t, from \o "_ens_read")
  /\ Goto(t, IF is_ours(disp)
             THEN (IF from = "sp" THEN "sp_block" ELSE "reg_cas")
             ELSE from \o "_ens_install")
  /\ UNCHANGED << proc, pending, kicked, disp, mask, env, PID_REGISTRY, PREV_SIGCHLD_ACTION,
                  pty, hs, truth, count >>

\* ensure_sigchld_handler, second half: sigaction(SIGCHLD, &sa, &PREV_SIGCHLD_ACTION)
\* installs ours and saves whatever was installed at that moment.
EnsureInstall(t, from) ==
  /\ At(t, from \o "_ens_install")
  /\ PREV_SIGCHLD_ACTION' = disp
  /\ disp' = "ours"
  /\ Goto(t, IF from = "sp" THEN "sp_block" ELSE "reg_cas")
  /\ UNCHANGED << proc, pending, kicked, mask, env, PID_REGISTRY, pty, hs, truth, count >>

\* sigprocmask(SIG_BLOCK, {SIGCHLD}, &old_mask) on the calling thread.
SpawnBlock(t) ==
  /\ At(t, "sp_block")
  /\ mask' = [mask EXCEPT ![t] = TRUE]
  /\ ct' = [ct EXCEPT ![t].pc = "sp_spawn", ![t].om = mask[t]]
  /\ UNCHANGED << proc, pending, kicked, disp, env, PID_REGISTRY, PREV_SIGCHLD_ACTION,
                  pty, hs, res, truth, first, count >>

\* A child whose process_id() is None: the handle records -1.
child_process_id_none(p) == -1

\* child.process_id().map(|p| p as i32).unwrap_or(-1): the child of a POSIX
\* spawn_command always has a process id, the PID the kernel gave it.
child_process_id(p) == p

\* spawn_command succeeded with PID p: pty.child and pty.child_pid are set.
\* A child the handle held before is dropped (neither killed nor reaped).
SpawnOk(t, p) ==
  /\ At(t, "sp_spawn")
  /\ proc[p].st = "free"
  /\ LET h == ct[t].h
     IN /\ proc' = [q \in Pids |->
                      IF q = p THEN [st |-> "run", kind |-> "child", word |-> 0, owner |-> h]
                      ELSE IF proc[q].owner = h THEN [proc[q] EXCEPT !.owner = 0]
                      ELSE proc[q]]
        /\ pty' = [pty EXCEPT ![h].child = TRUE, ![h].waited = FALSE, ![h].child_pid = child_process_id(p)]
        /\ truth' = [truth EXCEPT ![h] = None]
  /\ count' = [count EXCEPT !.spawns = @ + 1]
  /\ ct' = [ct EXCEPT ![t].pc = "reg_ens_read", ![t].i = 1]
  /\ UNCHANGED << pending, kicked, disp, mask, env, PID_REGISTRY, PREV_SIGCHLD_ACTION,
                  hs, res, first >>

\* sigprocmask(SIG_UNBLOCK, &set) in place of the restore.
unblocked_mask(old_mask) == FALSE

\* sigprocmask(SIG_SETMASK, &old_mask): whether SIGCHLD is blocked afterwards.
restored_mask(old_mask) == old_mask

\* spawn_command failed: the mask is restored and ErrSpawn returned.
SpawnErr(t) ==
  /\ At(t, "sp_spawn")
  /\ mask' = [mask EXCEPT ![t] = restored_mask(ct[t].om)]
  /\ Notice(t, ~restored_mask(ct[t].om))
  /\ Return(t, "spawn", ct[t].h, "ErrSpawn", None, "none")
  /\ UNCHANGED << proc, pending, disp, env, PID_REGISTRY, PREV_SIGCHLD_ACTION,
                  pty, hs, truth, count >>

\* register_pid, the scan: compare_exchange(0, pid) on slot i.
RegisterCas(t) ==
  /\ At(t, "reg_cas")
  /\ LET s == ct[t].i
         pid == pty[ct[t].h].child_pid
     IN IF PID_REGISTRY[s].pid = 0
        THEN /\ PID_REGISTRY' = [PID_REGISTRY EXCEPT ![s].pid = pid]
             /\ Goto(t, "reg_store")
        ELSE /\ UNCHANGED PID_REGISTRY
             /\ IF s = MAX_TRACKED_PIDS
                THEN Goto(t, "sp_unblock")
                ELSE /\ ct' = [ct EXCEPT ![t].i = s + 1]
                     /\ UNCHANGED << res, first >>
  /\ UNCHANGED << proc, pending, kicked, disp, mask, env, PREV_SIGCHLD_ACTION,
                  pty, hs, truth, count >>

\* register_pid, after a successful claim: slot.status.store(SLOT_RUNNING).
RegisterStore(t) ==
  /\ At(t, "reg_store")
  /\ PID_REGISTRY' = [PID_REGISTRY EXCEPT ![ct[t].i].status = SLOT_RUNNING]
  /\ Goto(t, "sp_unblock")
  /\ UNCHANGED << proc, pending, kicked, disp, mask, env, PREV_SIGCHLD_ACTION,
                  pty, hs, truth, count >>

\* sigprocmask(SIG_SETMASK, &old_mask) and return Ok.
SpawnUnblock(t) ==
  /\ At(t, "sp_unblock")
  /\ mask' = [mask EXCEPT ![t] = restored_mask(ct[t].om)]
  /\ Notice(t, ~restored_mask(ct[t].om))
  /\ Return(t, "spawn", ct[t].h, "Ok", None, "none")
  /\ UNCHANGED << proc, pending, disp, env, PID_REGISTRY, PREV_SIGCHLD_ACTION,
                  pty, hs, truth, count >>

\* ------------------------------------------------------------------- wait
\* A wait whose cache check is missing: every call evaluates the child afresh.
cached_code_skipped(h) == None

\* The exit code the cache check at the top of wait / wait_blocking returns.
cached_code(h) == pty[h].cached_exit_code

\* A handle that is taken to hold a child whatever it holds.
no_child_never(h) == FALSE

\* pty.child.is_none(): no spawn_command has succeeded on the handle.
no_child(h) == ~pty[h].child

\* The common head of portable_pty_wait and portable_pty_wait_blocking: the
\* cached exit code, then `child.is_none()`, then the registry; otherwise the
\* call goes on at position `next`.
WaitHead(t, op, h, next) ==
  /\ IF op = "wait" THEN At(t, "idle") ELSE CanCall(t)
  /\ pty[h].open
  /\ IF cached_code(h) # None
     THEN /\ Return(t, op, h, "Ok", cached_code(h), "cache")
          /\ UNCHANGED pty
     ELSE IF no_child(h)
     THEN /\ Return(t, op, h, "ErrWait", None, "none")
          /\ UNCHANGED pty
     ELSE IF pty[h].child_pid > 0 /\ lookup_cached_status(pty[h].child_pid) # None
     THEN CacheAndReturn(t, op, h, lookup_cached_status(pty[h].child_pid)[1], "registry")
     ELSE /\ ct' = [ct EXCEPT ![t] = Enter(t, next, h)]
          /\ res' = NoRes
          /\ UNCHANGED << pty, first >>
  /\ PID_REGISTRY' = IF /\ cached_code(h) = None /\ ~no_child(h) /\ pty[h].child_pid > 0
                         /\ lookup_cached_status(pty[h].child_pid) # None
                      THEN registry_after_hit(pty[h].child_pid)
                      ELSE PID_REGISTRY
  /\ UNCHANGED << proc, pending, kicked, disp, mask, env, PREV_SIGCHLD_ACTION,
                  hs, truth, count >>

WaitStart(t, h) == WaitHead(t, "wait", h, "w_waitpid")

\* libc::waitpid(pid, WNOHANG) at position `at` of wait.  A zombie is reaped
\* and its decoded status cached; a child still running gives `running`
\* ("" = no answer, go on); ECHILD goes on at `next`.
WaitpidNoHang(t, at, running, next) ==
  /\ At(t, at)
  /\ LET h == ct[t].h
         pid == pty[h].child_pid
     IN IF IsZombie(proc, pid)
        THEN /\ proc' = Reap(proc, pid)
             /\ CacheAndReturn(t, "wait", h, decode_status(proc[pid].word), "waitpid")
        ELSE IF IsRunningChild(proc, pid) /\ running # ""
        THEN /\ Return(t, "wait", h, running, None, "none")
             /\ UNCHANGED << proc, pty >>
        ELSE /\ Goto(t, next)
             /\ UNCHANGED << proc, pty >>
  /\ UNCHANGED << pending, kicked, disp, mask, env, PID_REGISTRY, PREV_SIGCHLD_ACTION,
                  hs, truth, count >>

\* A pre-emptive waitpid whose return of 0 ends the call as still-waiting.
on_zero_still_waiting == "ErrWait"

\* What the pre-emptive waitpid answers on a return of 0: nothing ("ret == 0:
\* still running, proceed to try_wait").
on_zero == ""

\* The pre-emptive waitpid: only a positive return produces an answer.
WaitPreWaitpid(t) == WaitpidNoHang(t, "w_waitpid", on_zero, "w_try_wait")

\* child.try_wait() of the underlying library (waitpid(pid, WNOHANG) inside):
\* Ok(Some(status)), Ok(None) for a running child, Err on ECHILD.
WaitTryWait(t) ==
  /\ At(t, "w_try_wait")
  /\ LET h == ct[t].h
         pid == pty[h].child_pid
     IN IF IsZombie(proc, pid)
        THEN /\ proc' = Reap(proc, pid)
             /\ pty' = [pty EXCEPT ![h].cached_exit_code = Some(upstream_exit_code(proc[pid].word)),
                                   ![h].waited = TRUE]
             /\ Return(t, "wait", h, "Ok", Some(upstream_exit_code(proc[pid].word)), "upstream")
        ELSE IF IsRunningChild(proc, pid)
        THEN /\ Return(t, "wait", h, "ErrWait", None, "none")
             /\ UNCHANGED << proc, pty >>
        ELSE /\ Goto(t, "w_fb_waitpid")
             /\ UNCHANGED << proc, pty >>
  /\ UNCHANGED << pending, kicked, disp, mask, env, PID_REGISTRY, PREV_SIGCHLD_ACTION,
                  hs, truth, count >>

\* The fallback's waitpid: 0 means still running.
WaitFbWaitpid(t) == WaitpidNoHang(t, "w_fb_waitpid", "ErrWait", "w_fb_lookup")

\* The fallback's re-check of the registry (wait and wait_blocking alike).
FbLookup(t, op, at, next) ==
  /\ At(t, at)
  /\ LET h == ct[t].h
         found == lookup_cached_status(pty[h].child_pid)
     IN IF found # None
        THEN CacheAndReturn(t, op, h, found[1], "registry")
        ELSE /\ Goto(t, next)
             /\ UNCHANGED pty
  /\ PID_REGISTRY' = IF lookup_cached_status(pty[ct[t].h].child_pid) # None
                      THEN registry_after_hit(pty[ct[t].h].child_pid)
                      ELSE PID_REGISTRY
  /\ UNCHANGED << proc, pending, kicked, disp, mask, env, PREV_SIGCHLD_ACTION,
                  hs, truth, count >>

\* A last step that reports exit code 0 whatever kill(pid, 0) returned.
probe_answer_any(ret, err) == [rc |-> "Ok", code |-> Some(0)]

\* What the last step answers when kill(pid, 0) returned `ret`: exit code 0 on
\* ESRCH, otherwise the error `err` of the call.
probe_answer(ret, err) ==
  IF ret = "ESRCH" THEN [rc |-> "Ok", code |-> Some(0)] ELSE [rc |-> err, code |-> None]

\* The fallback's last step: the liveness probe kill(pid, 0).
FbProbe(t, op, at, err) ==
  /\ At(t, at)
  /\ LET h == ct[t].h
     IN \E o \in KillOutcomes(pty[h].child_pid, 0) :
          LET a == probe_answer(o.ret, err)
          IN /\ pty' = [pty EXCEPT ![h].cached_exit_code = a.code]
             /\ Return(t, op, h, a.rc, a.code, IF a.rc = "Ok" THEN "esrch" ELSE "none")
  /\ UNCHANGED << proc, pending, kicked, disp, mask, env, PID_REGISTRY, PREV_SIGCHLD_ACTION,
                  hs, truth, count >>

WaitFbLookup(t) == FbLookup(t, "wait", "w_fb_lookup", "w_fb_probe")
WaitFbProbe(t) == FbProbe(t, "wait", "w_fb_probe", "ErrWait")

\* ---------------------------------------------------------- wait_blocking
WaitBlockingStart(t, h) == WaitHead(t, "wait_blocking", h, "wb_wait")

\* A blocking wait on the child at position `at`: child.wait() of the
\* underlying library (`up`), then libc::waitpid(pid, 0).  It returns once the
\* PID is no running child of ours: with the status of a zombie, or ECHILD.
BlockingWait(t, at, up, next) ==
  /\ At(t, at)
  /\ LET h == ct[t].h
         pid == pty[h].child_pid
         code == IF up THEN upstream_exit_code(proc[pid].word) ELSE decode_status(proc[pid].word)
     IN /\ ~IsRunningChild(proc, pid)
        /\ IF IsZombie(proc, pid)
           THEN /\ proc' = Reap(proc, pid)
                /\ pty' = [pty EXCEPT ![h].cached_exit_code = Some(code),
                                      ![h].waited = IF up THEN TRUE ELSE @]
                /\ Return(t, "wait_blocking", h, "Ok", Some(code),
                          IF up THEN "upstream" ELSE "waitpid")
           ELSE /\ Goto(t, next)
                /\ UNCHANGED << proc, pty >>
  /\ UNCHANGED << pending, kicked, disp, mask, env, PID_REGISTRY, PREV_SIGCHLD_ACTION,
                  hs, truth, count >>

WaitBlockingWait(t) == BlockingWait(t, "wb_wait", TRUE, "wb_fb_waitpid")
WaitBlockingFbWaitpid(t) == BlockingWait(t, "wb_fb_waitpid", FALSE, "wb_fb_lookup")
WaitBlockingFbLookup(t) == FbLookup(t, "wait_blocking", "wb_fb_lookup", "wb_fb_probe")
WaitBlockingFbProbe(t) == FbProbe(t, "wait_blocking", "wb_fb_probe", "ErrWaitBlocking")

\* ------------------------------------------------------------------- kill
\* What portable_pty_kill returns when kill(pid, signal) returned `ret`.
kill_result(ret) == IF ret \in {"ok", "ESRCH"} THEN "Ok" ELSE "ErrKill"

\* portable_pty_kill.  The call is one step: whatever happens between its
\* registry check and its kill(2) may as well happen before the call.
Kill(t, h, sig) ==
  /\ CanCall(t)
  /\ pty[h].open
  /\ IF pty[h].cached_exit_code # None
     THEN /\ Return(t, "kill", h, "Ok", None, "cache")
          /\ UNCHANGED << pty, kernel >>
     ELSE IF pty[h].child_pid > 0 /\ lookup_cached_status(pty[h].child_pid) # None
     THEN /\ pty' = [pty EXCEPT ![h].cached_exit_code = lookup_cached_status(pty[h].child_pid)]
          /\ Return(t, "kill", h, "Ok", None, "registry")
          /\ UNCHANGED kernel
     ELSE IF no_child(h) \/ pty[h].child_pid <= 0
     THEN /\ Return(t, "kill", h, "ErrKill", None, "none")
          /\ UNCHANGED << pty, kernel >>
     ELSE \E o \in KillOutcomes(pty[h].child_pid, sig) :
            /\ KillEffect(pty[h].child_pid, sig, o)
            /\ Return(t, "kill", h, kill_result(o.ret), None,
                      IF o.dies THEN "killed" ELSE o.ret)
            /\ UNCHANGED pty
  /\ PID_REGISTRY' = IF /\ pty[h].cached_exit_code = None /\ pty[h].child_pid > 0
                         /\ lookup_cached_status(pty[h].child_pid) # None
                      THEN registry_after_hit(pty[h].child_pid)
                      ELSE PID_REGISTRY
  /\ UNCHANGED << disp, mask, env, PREV_SIGCHLD_ACTION, hs, count >>

\* ------------------------------------------------------------------ close
\* The handle is dropped: Box::from_raw(handle) goes out of scope.
Drop(h) ==
  /\ pty' = [pty EXCEPT ![h] = ClosedPty]
  /\ truth' = [truth EXCEPT ![h] = None]

\* portable_pty_close is entered.  With a child, unregister_pid's
\* compare_exchange(pid, 0) hits the first slot holding the PID; a handle
\* without a child is dropped at once.
CloseStart(t, h) ==
  /\ CanCall(t)
  /\ pty[h].open
  /\ LET pid == pty[h].child_pid
         s == FirstSlot(pid)
     IN IF pid > 0
        THEN /\ PID_REGISTRY' = IF s # 0 THEN [PID_REGISTRY EXCEPT ![s].pid = 0]
                                ELSE PID_REGISTRY
             /\ ct' = [ct EXCEPT ![t] = [Enter(t, IF s # 0 THEN "cl_unreg_store" ELSE "cl_kill", h)
                                           EXCEPT !.i = s]]
             /\ res' = NoRes
             /\ UNCHANGED << pty, truth, first >>
        ELSE /\ Drop(h)
             /\ Return(t, "close", h, "Ok", None, "none")
             /\ UNCHANGED PID_REGISTRY
  /\ UNCHANGED << proc, pending, kicked, disp, mask, env, PREV_SIGCHLD_ACTION, hs, count >>

\* unregister_pid, after its compare_exchange: slot.status.swap(SLOT_EMPTY).
UnregisterStore(t) ==
  /\ At(t, "cl_unreg_store")
  /\ PID_REGISTRY' = [PID_REGISTRY EXCEPT ![ct[t].i].status = SLOT_EMPTY]
  /\ Goto(t, "cl_kill")
  /\ UNCHANGED << proc, pending, kicked, disp, mask, env, PREV_SIGCHLD_ACTION,
                  pty, hs, truth, count >>

\* child.kill() of the underlying library: nothing if it already holds the
\* child's status, otherwise SIGKILL to the recorded PID.
CloseKill(t) ==
  /\ At(t, "cl_kill")
  /\ LET h == ct[t].h
     IN IF pty[h].waited
        THEN UNCHANGED kernel
        ELSE \E o \in KillOutcomes(pty[h].child_pid, 9) : KillEffect(pty[h].child_pid, 9, o)
  /\ Goto(t, "cl_wait")
  /\ UNCHANGED << disp, mask, env, PID_REGISTRY, PREV_SIGCHLD_ACTION, pty, hs, count >>

\* child.wait() (blocking, errors ignored), the final waitpid(pid, WNOHANG)
\* and the drop of the handle.
CloseWait(t) ==
  /\ At(t, "cl_wait")
  /\ LET h == ct[t].h
         pid == pty[h].child_pid
     IN /\ pty[h].waited \/ ~IsRunningChild(proc, pid)
        /\ proc' = [q \in Pids |->
                      IF q = pid /\ IsZombie(proc, pid) THEN FreeProc
                      ELSE IF proc[q].owner = h THEN [proc[q] EXCEPT !.owner = 0]
                      ELSE proc[q]]
        /\ Drop(h)
        /\ Return(t, "close", h, "Ok", None, "none")
  /\ UNCHANGED << pending, kicked, disp, mask, env, PID_REGISTRY, PREV_SIGCHLD_ACTION,
                  hs, count >>

\* ------------------------------------------------------------ specification
CallerStep(t) ==
  \/ \E h \in Handles : Open(t, h)
  \/ \E h \in Handles : SpawnStart(t, h)
  \/ EnsureRead(t, "sp")
  \/ EnsureInstall(t, "sp")
  \/ SpawnBlock(t)
  \/ \E p \in Pids : SpawnOk(t, p)
  \/ SpawnErr(t)
  \/ EnsureRead(t, "reg")
  \/ EnsureInstall(t, "reg")
  \/ RegisterCas(t)
  \/ RegisterStore(t)
  \/ SpawnUnblock(t)
  \/ \E h \in Handles : WaitStart(t, h)
  \/ WaitPreWaitpid(t)
  \/ WaitTryWait(t)
  \/ WaitFbWaitpid(t)
  \/ WaitFbLookup(t)
  \/ WaitFbProbe(t)
  \/ \E h \in Handles : WaitBlockingStart(t, h)
  \/ WaitBlockingWait(t)
  \/ WaitBlockingFbWaitpid(t)
  \/ WaitBlockingFbLookup(t)
  \/ WaitBlockingFbProbe(t)
  \/ \E h \in Handles, sig \in Signals : Kill(t, h, sig)
  \/ \E h \in Handles : CloseStart(t, h)
  \/ UnregisterStore(t)
  \/ CloseKill(t)
  \/ CloseWait(t)

HandlerStep(t) ==
  \/ Deliver(t)
  \/ HandlerLoad(t)
  \/ HandlerCas(t)
  \/ HandlerCheck(t)
  \/ HandlerWaitpid(t)
  \/ HandlerStore(t)
  \/ HandlerFlags(t)
  \/ HandlerChain(t)

EnvStep ==
  \/ \E p \in Pids, w \in DeathWords : ChildExit(p, w)
  \/ \E p \in Pids : AlienStart(p)
  \/ \E p \in Pids : AlienExit(p)
  \/ \E p \in Pids : ForeignThreadReap(p)
  \/ ThirdPartyInstall

Next ==
  \/ \E t \in Callers : CallerStep(t)
  \/ \E t \in Threads : HandlerStep(t)
  \/ EnvStep

Spec == Init /\ [][Next]_vars

\* ------------------------------------------------------------------ liveness
\* A host whose reaper thread competes for the children and in which PIDs are
\* reused, with a caller that keeps polling wait: every call in progress goes
\* on, a caller between calls polls again, and the kernel delivers a pending
\* SIGCHLD to a thread that can take it, whose handler then runs to its end.
\* Nothing forces a process to end.
LiveInit == Init /\ env.aliens

LiveEnvStep ==
  \/ \E p \in Pids, w \in DeathWords : ChildExit(p, w)
  \/ \E p \in Pids : AlienStart(p)
  \/ \E p \in Pids : AlienExit(p)
  \/ \E p \in Pids : ForeignThreadReap(p)

LiveNext ==
  \/ \E t \in Callers : CallerStep(t)
  \/ \E t \in Threads : HandlerStep(t)
  \/ LiveEnvStep

InCall(t) == ct[t].pc # "idle" /\ CallerStep(t)
Poll(t) == \E h \in Handles : WaitStart(t, h)

Fairness ==
  /\ \A t \in Callers : WF_vars(InCall(t)) /\ WF_vars(Poll(t))
  /\ \A t \in Threads : WF_vars(HandlerStep(t))

LiveSpec == LiveInit /\ [][LiveNext]_vars /\ Fairness

\* ------------------------------------------------------------------- claims
Waits == {"wait", "wait_blocking"}

\* The last call was a wait of either kind on h that returned Ok.
WaitOk(h) == res.op \in Waits /\ res.h = h /\ res.rc = "Ok"

\* The registry has an entry for the PID of the child handle h holds.
Tracked(h) == pty[h].child_pid > 0 /\ FirstSlot(pty[h].child_pid) # 0

\* Every slot of the registry is claimed.
RegistryFull == \A s \in Slots : PID_REGISTRY[s].pid # 0

\* The child handle h holds has ended, and h has not been closed or given
\* another child since.
Ended(h) == pty[h].open /\ pty[h].child /\ truth[h] # None

\* The host whose only SIGCHLD handler besides ours is the foreign reaper we
\* chain to, and the host with a reaper thread blocked in waitpid(-1, 0).
ChainedReaperHost == Host("foreign", FALSE, TRUE, FALSE, FALSE)
ReaperThreadHost == Host("dfl", TRUE, TRUE, TRUE, FALSE)

\* C1: with the library's handler installed and a foreign reaper as the
\* handler it chains to, a wait of either kind that returns Ok for a child
\* spawn registered reports that child's true exit code, never the fallback 0.
\* (Stated for the first child spawned, so that the code reported cannot be
\* that of an earlier child.)
C1_TrueExitCode ==
  \A h \in Handles :
    (env = ChainedReaperHost /\ disp = "ours" /\ count.spawns = 1
       /\ WaitOk(h) /\ Tracked(h))
      => (truth[h] # None /\ res.code = Some(decode_status(truth[h][1])))

\* While the handle stays open, a first successful wait fixes the cache and
\* the answer of every wait after it.
C2_FirstCodeKept ==
  \A h \in Handles :
    (pty[h].open /\ first[h] # None) =>
      /\ pty[h].cached_exit_code = first[h]
      /\ (res.op \in Waits /\ res.h = h) => (res.rc = "Ok" /\ res.code = first[h])

\* No step changes a cached exit code of a handle that stays open.
C2_CacheStep ==
  \A h \in Handles :
    (pty[h].cached_exit_code # None /\ pty'[h].open)
      => pty'[h].cached_exit_code = pty[h].cached_exit_code

\* C2: once cached_exit_code is set on a handle it never changes, and from
\* the first wait that returns Ok on, every wait and wait_blocking on the
\* handle returns Ok with that same code, whatever the registry or the kernel
\* would report for the PID by then.
C2_WriteOnce == [](C2_FirstCodeKept) /\ [][C2_CacheStep]_vars

\* A wait answered 7 from the cache although the PID is gone by now and the
\* registry holds nothing for it: evaluated afresh, the call would answer 0.
C2_Witness ==
  \E h \in Handles :
    /\ WaitOk(h) /\ res.via = "cache" /\ res.code = Some(7)
    /\ ~Exists(proc, pty[h].child_pid)
    /\ lookup_cached_status(pty[h].child_pid) = None

\* C3: a caller that keeps polling wait on a handle whose child has ended
\* eventually gets Ok, also when a foreign reaper competes for the child.
C3_PollingEndsOk ==
  \A h \in Handles : Ended(h) ~> (WaitOk(h) \/ ~Ended(h))

\* C4: with a foreign thread blocked in waitpid(-1, 0), wait_blocking on a
\* child that exits with code c returns Ok with c: whenever its blocking waits
\* have failed with ECHILD, the registry already holds the child's status.
\* (Stated for the first child spawned, as C1.)
C4_BlockingTrueCode ==
  \A h \in Handles :
    (env = ReaperThreadHost /\ count.spawns = 1 /\ truth[h] # None)
      => /\ (res.op = "wait_blocking" /\ res.h = h)
              => (res.rc = "Ok" /\ res.code = Some(decode_status(truth[h][1])))
         /\ \A t \in Callers :
              (ct[t].pc = "wb_fb_lookup" /\ ct[t].h = h)
                => lookup_cached_status(pty[h].child_pid) # None

\* C5: wait returns Ok only if the child the handle currently owns has ended.
C5_OkOnlyIfEnded ==
  \A h \in Handles :
    (res.op = "wait" /\ res.h = h /\ res.rc = "Ok") => truth[h] # None

\* C6: once kill has returned Ok on a handle, a caller that keeps polling
\* wait eventually gets Ok.  (Stated for a kill whose signal ended the
\* process it was sent to, on a handle whose child has ended.)
C6_KillThenWaitOk ==
  \A h \in Handles :
    (res.op = "kill" /\ res.h = h /\ res.rc = "Ok" /\ res.via = "killed" /\ Ended(h))
      ~> (WaitOk(h) \/ ~Ended(h))

\* C7: kill with a valid signal number on a handle whose child has already
\* ended returns Ok, never ErrKill.
C7_KillDeadIsOk ==
  \A h \in Handles :
    (res.op = "kill" /\ res.h = h /\ Ended(h) /\ res.via # "EINVAL")
      => res.rc = "Ok"

\* The step that ends a wait at its liveness probe.
C8_Step ==
  \A t \in Callers :
    (ct[t].pc \in {"w_fb_probe", "wb_fb_probe"} /\ ct'[t].pc = "idle") =>
      LET h == ct[t].h
          err == IF ct[t].pc = "w_fb_probe" THEN "ErrWait" ELSE "ErrWaitBlocking"
      IN /\ pty[h].cached_exit_code = None
         /\ res'.h = h
         /\ IF ~Exists(proc, pty[h].child_pid)
            THEN res'.rc = "Ok" /\ res'.code = Some(0) /\ pty'[h].cached_exit_code = Some(0)
            ELSE res'.rc = err /\ res'.code = None /\ pty'[h].cached_exit_code = None

\* C8: the last step of wait and of wait_blocking is reached with no cached
\* code; if kill(pid, 0) then fails with ESRCH (no process has the PID) the
\* call returns Ok with exit code 0 and caches 0, otherwise it returns ErrWait
\* (ErrWaitBlocking for wait_blocking) and leaves the cache unset.
C8_ProbeStep == [][C8_Step]_vars

\* A wait_blocking answered 0 through the probe for a child that exited with 7.
C8_Witness ==
  \E h \in Handles :
    /\ res.op = "wait_blocking" /\ res.h = h /\ res.via = "esrch"
    /\ pty[h].cached_exit_code = Some(0)
    /\ truth[h] = Some(7 * 256)

\* With every slot claimed, register_pid's scan writes no slot and spawn
\* returns Ok.
C9_Step ==
  \A t \in Callers :
    (RegistryFull /\ ct[t].pc \in {"reg_ens_read", "reg_ens_install", "reg_cas"}
       /\ ct'[t] # ct[t])
      => /\ PID_REGISTRY' = PID_REGISTRY
         /\ ct'[t].pc # "reg_store"
         /\ ct'[t].pc = "idle" => res'.rc = "Ok"

C9_RegisterStep == [][C9_Step]_vars

\* C9: when every slot is claimed, register_pid changes no slot and spawn
\* still returns Ok; the untracked child remains waitable: after it has ended,
\* a caller that keeps polling wait eventually gets Ok.
C9_FullRegistry ==
  /\ C9_RegisterStep
  /\ \A h \in Handles :
       (RegistryFull /\ ~Tracked(h) /\ Ended(h)) ~> (WaitOk(h) \/ ~Ended(h))

\* C10: while spawn has not yet registered the PID of the child it created,
\* no thread is inside sigchld_handler for that child's SIGCHLD.  (Stated for
\* the first child spawned, whose PID no earlier child can have had.)
C10_NoHandlerBeforeRegister ==
  \A c \in Callers, t \in Threads :
    (count.spawns = 1 /\ ct[c].pc \in {"reg_ens_read", "reg_ens_install", "reg_cas"}
       /\ hs[t].pc # "idle")
      => hs[t].info[1].si_pid # pty[ct[c].h].child_pid

\* A status word that is neither sentinel.
Concrete(status) == status # SLOT_EMPTY /\ status # SLOT_RUNNING

\* The moves of one slot's status along EMPTY -> RUNNING -> concrete -> EMPTY
\* (an unregistered slot goes to EMPTY from RUNNING as well as from concrete).
C11_Forward(a, b) ==
  \/ a = SLOT_EMPTY /\ b = SLOT_RUNNING
  \/ a = SLOT_RUNNING /\ Concrete(b)
  \/ a = SLOT_RUNNING /\ b = SLOT_EMPTY
  \/ Concrete(a) /\ b = SLOT_EMPTY

C11_Step ==
  \A s \in Slots :
    PID_REGISTRY'[s].status # PID_REGISTRY[s].status
      => C11_Forward(PID_REGISTRY[s].status, PID_REGISTRY'[s].status)

\* C11: in every interleaving of register, unregister and handler runs, a
\* slot's status only moves EMPTY -> RUNNING -> concrete -> EMPTY, never
\* backwards, and a concrete status is replaced by nothing but EMPTY.
C11_StatusCycle == [][C11_Step]_vars

\* A step in which a thread inside sigchld_handler executes one of the
\* handler's two writes: the compare-and-swap of step 1, which writes only
\* when it succeeds, or the store of the sweep.
C12_Step ==
  \A t \in Threads :
    LET s == hs[t].i
    IN /\ (hs[t].pc = "h1_cas" /\ hs'[t] # hs[t] /\ PID_REGISTRY' # PID_REGISTRY)
            => (PID_REGISTRY[s].status = SLOT_RUNNING /\ Concrete(PID_REGISTRY'[s].status))
       /\ (hs[t].pc = "h2_store" /\ hs'[t] # hs[t])
            => (PID_REGISTRY[s].status = SLOT_RUNNING /\ Concrete(PID_REGISTRY'[s].status))

\* C12: every write the handler makes to a slot's status, in the siginfo
\* phase and in the sweep, replaces SLOT_RUNNING with a concrete status word;
\* the handler never writes over a concrete status nor into a slot whose
\* status is SLOT_EMPTY.
C12_HandlerWrites == [][C12_Step]_vars

\* Positions of a caller inside ensure_sigchld_handler, and those it returns to.
InEnsure == {"sp_ens_read", "sp_ens_install", "reg_ens_read", "reg_ens_install"}
AfterEnsure == {"sp_block", "reg_cas"}

\* The step in which ensure_sigchld_handler returns: the disposition is our
\* handler; what it replaced, if anything, is the saved chain target.
C13_Step ==
  \A t \in Callers :
    (ct[t].pc \in InEnsure /\ ct'[t].pc \in AfterEnsure)
      => /\ disp' = "ours"
         /\ PREV_SIGCHLD_ACTION' = IF disp = "ours" THEN PREV_SIGCHLD_ACTION ELSE disp

\* After a third party's override, our handler is the disposition again only
\* with the third party's handler as the one it chains to.
C13_ChainsToThirdParty ==
  (count.overrides > 0 /\ disp = "ours") => PREV_SIGCHLD_ACTION = "foreign"

\* C13: whenever ensure_sigchld_handler returns, the SIGCHLD disposition is
\* the library's handler; after a third party replaced it, the next spawn
\* installs the library's handler again and saves the third party's action as
\* the chain target, so the library's handler runs and chains to it.
C13_Reinstall == [](C13_ChainsToThirdParty) /\ [][C13_Step]_vars

\* The library's handler, installed again after a third party's override, has
\* run for a child's SIGCHLD and is about to chain to the third party's handler.
C13_Witness ==
  /\ count.overrides > 0 /\ disp = "ours" /\ PREV_SIGCHLD_ACTION = "foreign"
  /\ \E t \in Threads : hs[t].pc = "h3_chain"

\* C14: in every reachable state at most one slot of the registry holds any
\* given nonzero PID, also when the kernel gives the PID of a reaped child to
\* a new child while the first one's slot is still claimed.
C14_OneSlotPerPid ==
  \A s1, s2 \in Slots :
    (PID_REGISTRY[s1].pid # 0 /\ PID_REGISTRY[s1].pid = PID_REGISTRY[s2].pid) => s1 = s2

C15_Step ==
  \A h \in Handles :
    (pty[h].open /\ pty[h].child_pid > 0 /\ pty'[h].open)
      => pty'[h].child_pid = pty[h].child_pid

\* C15: once a spawn on a handle has set child_pid, no step changes it while
\* the handle stays open, another spawn on the same handle included.
C15_ChildPidFixed == [][C15_Step]_vars

\* Handle h has a PID exactly when it has a child object; without one,
\* portable_pty_child_pid reports -1.
C16_PidIffChild ==
  \A h \in Handles :
    pty[h].open =>
      /\ pty[h].child_pid > 0 => pty[h].child
      /\ pty[h].child_pid <= 0 => (~pty[h].child /\ portable_pty_child_pid(h) = -1)

\* A spawn that returns Ok leaves a positive child_pid, and a positive
\* child_pid stays positive while the handle is open: a handle whose child_pid
\* is not positive has had no successful spawn.
C16_Step ==
  /\ \A t \in Callers :
       (ct[t].pc = "sp_unblock" /\ ct'[t].pc = "idle")
         => (res'.rc = "Ok" /\ pty'[res'.h].child_pid > 0)
  /\ \A h \in Handles :
       (pty[h].open /\ pty[h].child_pid > 0 /\ pty'[h].open) => pty'[h].child_pid > 0

ApiOps ==
  {"open", "spawn", "read", "write", "resize", "master_fd", "get_size", "child_pid",
   "wait", "wait_blocking", "kill", "process_group_leader", "get_mode", "close"}

\* An API that answers Ok to a null argument.
null_result_ok(op) == "Ok"

\* What each function returns for a null handle (portable_pty_open: for a
\* null `out`): the first statement of each is the null check.
null_result(op) ==
  CASE op = "open" -> "ErrNull"
    [] op = "spawn" -> "ErrNull"
    [] op = "read" -> "-1"
    [] op = "write" -> "-1"
    [] op = "resize" -> "ErrNull"
    [] op = "master_fd" -> "-1"
    [] op = "get_size" -> "ErrNull"
    [] op = "child_pid" -> "-1"
    [] op = "wait" -> "ErrNull"
    [] op = "wait_blocking" -> "ErrNull"
    [] op = "kill" -> "ErrNull"
    [] op = "process_group_leader" -> "-1"
    [] op = "get_mode" -> "ErrNull"
    [] op = "close" -> "void"

\* The caller calls `op` with a null handle: the function returns at its null
\* check, before it reads or writes anything.
NullCall(t, op) ==
  /\ At(t, "idle")
  /\ res' = [NoRes EXCEPT !.op = op, !.rc = null_result(op), !.via = "null"]
  /\ UNCHANGED << proc, pending, kicked, disp, mask, env, PID_REGISTRY, PREV_SIGCHLD_ACTION,
                  pty, ct, hs, truth, first, count >>

\* The library in the host with a chained foreign handler, used by a caller
\* that also passes null arguments.
NullInit == Init /\ env = ChainedReaperHost

NullNext ==
  \/ \E t \in Callers : CallerStep(t)
  \/ \E t \in Threads : HandlerStep(t)
  \/ \E p \in Pids, w \in DeathWords : ChildExit(p, w)
  \/ \E t \in Callers, op \in ApiOps : NullCall(t, op)

NullSpec == NullInit /\ [][NullNext]_vars

\* The step of a call with a null argument changes nothing but the caller's
\* record of what the call returned.
C17_Step ==
  (res'.via = "null" /\ res' # res)
    => UNCHANGED << proc, pending, kicked, disp, mask, env, PID_REGISTRY,
                    PREV_SIGCHLD_ACTION, pty, ct, hs, truth, first, count >>

\* What a call with a null argument returned.
C17_Returned ==
  res.via = "null" =>
    /\ res.op \in {"open", "spawn", "resize", "get_size", "get_mode", "wait",
                   "wait_blocking", "kill"} => res.rc = "ErrNull"
    /\ res.op \in {"read", "write", "child_pid", "master_fd", "process_group_leader"}
         => res.rc = "-1"
    /\ res.op = "close" => res.rc = "void"

\* C17: null arguments are rejected without any state change: open with a
\* null out pointer and spawn, resize, get_size, get_mode, wait, wait_blocking
\* and kill on a null handle return ErrNull; read, write, child_pid, master_fd
\* and process_group_leader on a null handle return -1; close(null) returns
\* having touched neither the registry nor any handle.
C17_NullRejected == [](C17_Returned) /\ [][C17_Step]_vars

\* close(null) has returned while a handle is open with a registered child.
C17_Witness ==
  /\ res.via = "null" /\ res.op = "close"
  /\ \E h \in Handles : pty[h].open /\ pty[h].child /\ Tracked(h)

\* ------------------------------------------------------- status decoding
\* The status words of real terminations: exit(c), death by signal s without
\* and with a core dump.
TermWords ==
  {c * 256 : c \in 0..255} \cup {g : g \in 1..64} \cup {g + 128 : g \in 1..64}

SiCodes == {"CLD_EXITED", "CLD_KILLED", "CLD_DUMPED"}

\* One handle whose child (PID 1) is registered and has just ended; its
\* SIGCHLD is pending with a siginfo_t drawn from the range checked.  The
\* child is a zombie with the status word of that termination, if it is a
\* real one, or has already been reaped by the host's reaper thread.
DecodeInit ==
  /\ env = ReaperThreadHost
  /\ \E c \in SiCodes, x \in 0..MaxSiStatus :
       LET si == [si_pid |-> 1, si_code |-> c, si_status |-> x]
       IN /\ pending = Some(si)
          /\ \E z \in {None} \cup {Some(w) : w \in {v \in TermWords : SigInfo(1, v) = si}} :
               /\ proc = [p \in Pids |->
                            IF p = 1 /\ z # None
                            THEN [st |-> "zombie", kind |-> "child", word |-> z[1], owner |-> 1]
                            ELSE FreeProc]
               /\ truth = [h \in Handles |-> IF h = 1 THEN z ELSE None]
  /\ kicked = [t \in Callers |-> FALSE]
  /\ disp = "ours"
  /\ mask = [t \in Threads |-> FALSE]
  /\ PID_REGISTRY = [s \in Slots |-> IF s = 1 THEN [pid |-> 1, status |-> SLOT_RUNNING]
                                     ELSE [pid |-> 0, status |-> SLOT_EMPTY]]
  /\ PREV_SIGCHLD_ACTION = "dfl"
  /\ pty = [h \in Handles |-> IF h = 1
                              THEN [ClosedPty EXCEPT !.open = TRUE, !.child = TRUE,
                                                     !.child_pid = 1]
                              ELSE ClosedPty]
  /\ ct = [t \in Callers |-> IdleCaller]
  /\ hs = [t \in Threads |-> IdleHandler]
  /\ res = NoRes
  /\ first = [h \in Handles |-> None]
  /\ count = [spawns |-> 1, aliens |-> 0, overrides |-> 0]

\* The handler runs for that SIGCHLD (its siginfo names the registered PID,
\* so the sweep finds nothing left to do) while the caller waits.
DecodeNext ==
  \/ \E t \in Threads :
       \/ Deliver(t) \/ HandlerLoad(t) \/ HandlerCas(t) \/ HandlerCheck(t)
       \/ HandlerFlags(t) \/ HandlerChain(t)
  \/ \E p \in Pids : ForeignThreadReap(p)
  \/ \E t \in Callers :
       \/ \E h \in Handles : WaitStart(t, h)
       \/ WaitPreWaitpid(t)
       \/ WaitTryWait(t)
       \/ WaitFbWaitpid(t)
       \/ WaitFbLookup(t)
       \/ WaitFbProbe(t)

DecodeSpec == DecodeInit /\ [][DecodeNext]_vars

\* A thread past step 1 of a handler run, and the siginfo that run was given.
PastStep1(t) == hs[t].pc \in {"h2_check", "h3_flags", "h3_chain"}
InfoOf(t) == hs[t].info[1]

\* The exit code the conventional reading of siginfo gives.
C18_Conventional(si) ==
  IF si.si_code = "CLD_EXITED" THEN si.si_status % 256 ELSE 128 + (si.si_status % 128)

\* The same, with the two signal numbers no termination has: 0 reads as
\* exit code 0 and 127 as no termination at all.
C18_Read(si) ==
  IF si.si_code = "CLD_EXITED" THEN si.si_status % 256
  ELSE IF si.si_status % 128 = 0 THEN 0
  ELSE IF si.si_status % 128 = 127 THEN -1
  ELSE 128 + (si.si_status % 128)

\* C18: for every si_status of the range, the status the handler recorded
\* from siginfo decodes to si_status & 0xff for CLD_EXITED and to
\* 128 + (si_status & 0x7f) for CLD_KILLED and CLD_DUMPED alike; a wait that
\* returns the registry's code or the code of its own waitpid reports that
\* same code for the termination.
C18_Decoded ==
  \A t \in Threads :
    /\ PastStep1(t) => lookup_cached_status(InfoOf(t).si_pid) = Some(C18_Conventional(InfoOf(t)))
    /\ (hs[t].pc # "idle" /\ WaitOk(1) /\ res.via \in {"registry", "waitpid"})
         => res.code = Some(C18_Conventional(InfoOf(t)))

\* C18 as the code has it: the conventional code for every exit status and
\* every signal number from 1 to 126; a signal number of 0 gives 0 and one of
\* 127 gives -1.
C18_DecodedAsRead ==
  \A t \in Threads :
    /\ PastStep1(t) => lookup_cached_status(InfoOf(t).si_pid) = Some(C18_Read(InfoOf(t)))
    /\ (hs[t].pc # "idle" /\ WaitOk(1) /\ res.via \in {"registry", "waitpid"})
         => res.code = Some(C18_Read(InfoOf(t)))
    /\ (hs[t].pc # "idle" /\ InfoOf(t).si_code # "CLD_EXITED"
          /\ (InfoOf(t).si_status % 128) \in 1..126)
         => C18_Read(InfoOf(t)) = C18_Conventional(InfoOf(t))

\* The handler has recorded a death by signal 11 with a core dump, and wait
\* has returned 139 from the registry.
C18_Witness ==
  \E t \in Threads :
    /\ PastStep1(t)
    /\ InfoOf(t).si_code = "CLD_DUMPED" /\ InfoOf(t).si_status = 11
    /\ WaitOk(1) /\ res.via = "registry" /\ res.code = Some(139)

\* The call the saved action asks for: none for SIG_DFL, else the form its
\* recorded flags name.
C19_CallFor(action) ==
  IF action = "dfl" THEN "none" ELSE IF sa_siginfo(action) THEN "three" ELSE "one"

\* The step in which a handler invocation chains: it is the invocation's last
\* step, it writes no slot, and it calls the saved handler in the form of the
\* saved flags, or not at all when the saved action is SIG_DFL.
C19_Step ==
  \A t \in Threads :
    (hs[t].pc = "h3_chain" /\ hs'[t] # hs[t])
      => /\ hs'[t].pc = "idle"
         /\ PID_REGISTRY' = PID_REGISTRY
         /\ chain_call(hs[t].flags, PREV_SIGCHLD_ACTION) = C19_CallFor(PREV_SIGCHLD_ACTION)

\* C19: in every invocation of the library's handler the registry updates of
\* both phases are complete before the previously installed handler is
\* invoked; it is then invoked exactly once, in three-argument form if its
\* recorded flags include SA_SIGINFO and in one-argument form otherwise, and
\* never when it is SIG_DFL or SIG_IGN.
C19_ChainOnce == [][C19_Step]_vars

\* Positions of a caller inside portable_pty_close once it has a PID to
\* unregister; at the last two unregister_pid has returned.
InClose == {"cl_unreg_store", "cl_kill", "cl_wait"}

\* A step of close on a handle with child_pid > 0.  The slot unregister_pid
\* took (ct[t].i, 0 if it found none) is the only one a step of close writes;
\* it has been freed before the child is killed or reaped; when close returns
\* that slot has pid 0 and status SLOT_EMPTY and no slot holds the PID.
C20_Step ==
  \A t \in Callers :
    LET h == ct[t].h
        pid == pty[h].child_pid
        s == ct[t].i
    IN (ct[t].pc \in InClose /\ ct'[t] # ct[t])
         => /\ \A r \in Slots \ {s} : PID_REGISTRY'[r] = PID_REGISTRY[r]
            /\ (ct[t].pc \in {"cl_kill", "cl_wait"} /\ s # 0) => PID_REGISTRY[s].pid = 0
            /\ ct[t].pc = "cl_wait" =>
                 /\ ct'[t].pc = "idle"
                 /\ \A r \in Slots : PID_REGISTRY'[r].pid # pid
                 /\ s # 0 => PID_REGISTRY'[s] = [pid |-> 0, status |-> SLOT_EMPTY]

\* C20: close on a handle with child_pid > 0 unregisters the PID before it
\* kills or reaps the child; after close returns no slot holds that PID, the
\* freed slot has pid 0 and status SLOT_EMPTY, so that a later register_pid
\* can claim it, and the slots of other PIDs are unchanged.
C20_CloseUnregisters == [][C20_Step]_vars

\* ---------------------------------------------------------------- C21
\* A caller may enter the library with SIGCHLD already blocked in its thread.
MaskInit ==
  /\ Start(Callers, Handles)
  /\ env = ChainedReaperHost
  /\ mask \in {m \in [Threads -> BOOLEAN] : \A t \in Threads \ Callers : ~m[t]}

MaskNext ==
  \/ \E t \in Callers : CallerStep(t)
  \/ \E t \in Threads : HandlerStep(t)
  \/ \E p \in Pids, w \in DeathWords : ChildExit(p, w)

MaskSpec == MaskInit /\ [][MaskNext]_vars

BeforeBlock == {"sp_ens_read", "sp_ens_install"}
AfterBlock == {"sp_spawn", "reg_ens_read", "reg_ens_install", "reg_cas", "reg_store", "sp_unblock"}

C21_Step ==
  \A t \in Callers :
    LET pc == ct[t].pc
        moved == ct'[t] # ct[t]
        returns == moved /\ ct'[t].pc = "idle"
    IN /\ pc \in BeforeBlock => mask'[t] = mask[t]
       /\ (pc = "sp_block" /\ moved) => (ct'[t].om = mask[t] /\ mask'[t])
       /\ (pc \in AfterBlock /\ ~returns) => (ct'[t].om = ct[t].om /\ mask'[t] = mask[t])
       /\ (pc \in AfterBlock /\ returns) => mask'[t] = ct[t].om
       /\ (pc = "sp_spawn" /\ returns) =>
             /\ res'.op = "spawn" /\ res'.rc = "ErrSpawn"
             /\ pty' = pty
             /\ PID_REGISTRY' = PID_REGISTRY
       /\ (pc \in BeforeBlock \cup {"sp_block"} /\ moved) =>
             (pty' = pty /\ PID_REGISTRY' = PID_REGISTRY)

\* C21: every return of spawn that blocked SIGCHLD puts the calling thread's
\* mask back to what it was on entry (the mask does not change before the
\* block, the block saves it, the saved value is kept and every return
\* restores it); a failed spawn returns ErrSpawn and no step of it changes the
\* handle or a registry slot.
C21_MaskRestored == [][C21_Step]_vars

\* A spawn entered with SIGCHLD blocked has failed on a handle that holds a
\* registered child, and SIGCHLD is blocked again.
C21_Witness ==
  /\ res.op = "spawn" /\ res.rc = "ErrSpawn"
  /\ mask["T1"]
  /\ \E h \in Handles : pty[h].child /\ Tracked(h)
\* ---------------------------------------------------------------- C22
NeverSpawned(h) == pty[h].open /\ ~pty[h].child

C22_Step ==
  \A h \in Handles :
    (/\ NeverSpawned(h)
     /\ res' # res \/ ct' # ct
     /\ res'.h = h
     /\ res'.op \in {"wait", "wait_blocking", "kill"})
    => /\ res'.rc = (IF res'.op = "kill" THEN "ErrKill" ELSE "ErrWait")
       /\ pty' = pty
       /\ proc' = proc /\ pending' = pending
       /\ \A t \in Callers : ct[t].pc = "idle" /\ ct'[t].pc = "idle"

C22_StepFrom ==
  \A h \in Handles, t \in Callers :
    (NeverSpawned(h) /\ ct[t].pc = "idle" /\ ct'[t].pc # "idle" /\ ct'[t].h = h)
    => ct'[t].pc \in InEnsure

\* C22: on an open handle on which no spawn has succeeded, child_pid is -1,
\* and a wait, wait_blocking or kill returns in its first step (ErrWait,
\* ErrWait, ErrKill) leaving the handle, every process and the pending signal
\* as they were; the only call that stays in progress on it is a spawn.
C22_NoChild ==
  /\ [](\A h \in Handles : NeverSpawned(h) => portable_pty_child_pid(h) = -1)
  /\ [][C22_Step /\ C22_StepFrom]_vars

\* kill has returned ErrKill on an open handle before any spawn of the
\* program, and no signal is pending.
C22_Witness ==
  /\ res.op = "kill" /\ res.rc = "ErrKill"
  /\ NeverSpawned(res.h)
  /\ count.spawns = 0
  /\ pending = None
\* ---------------------------------------------------------------- C23
\* The child of the wait in progress on thread t.
WaitPid(t) == pty[ct[t].h].child_pid

\* The wait in progress on t has had 0 from its direct waitpid: it is past that
\* call and its child has not been reaped.
ZeroSeen(t) == ct[t].pc = "w_try_wait" /\ IsChild(proc, WaitPid(t))

C23_ZeroStep ==
  \A t \in Callers :
    (ZeroSeen(t) /\ ct'[t] # ct[t])
    => /\ ct'[t].pc = "idle"
       /\ res'.op = "wait" /\ res'.rc = "ErrWait"
       /\ pty'[ct[t].h].cached_exit_code = None

\* C23: a non-blocking wait whose direct waitpid(child_pid, WNOHANG) returned 0
\* reports still-waiting (ErrWait) and leaves cached_exit_code unset.
C23_ZeroIsStillWaiting == [][C23_ZeroStep]_vars

C23_TryWaitStep ==
  \A t \in Callers :
    LET h == ct[t].h
        pid == WaitPid(t)
        moved == ct'[t] # ct[t]
    IN /\ (ct[t].pc = "w_waitpid" /\ moved /\ IsRunningChild(proc, pid))
          => (ct'[t].pc = "w_try_wait" /\ pty' = pty /\ proc' = proc /\ res' = res)
       /\ (ZeroSeen(t) /\ moved /\ IsRunningChild(proc, pid))
          => /\ ct'[t].pc = "idle"
             /\ res'.op = "wait" /\ res'.rc = "ErrWait"
             /\ pty' = pty
       /\ (ZeroSeen(t) /\ moved /\ IsZombie(proc, pid))
          => /\ ct'[t].pc = "idle"
             /\ res'.op = "wait" /\ res'.rc = "Ok"
             /\ res'.code = Some(upstream_exit_code(proc[pid].word))
             /\ pty'[h].cached_exit_code = res'.code
             /\ ~Exists(proc', pid)

\* C23 as the code has it: a return of 0 from the direct waitpid is no answer;
\* the call goes on to the underlying library's try_wait, which reports
\* still-waiting (cache unset) when the child is still running and returns Ok
\* with the cached exit code when the child has terminated in between.
C23_ZeroGoesOn == [][C23_TryWaitStep]_vars

\* A wait has returned Ok from try_wait: its direct waitpid had returned 0 and
\* the child terminated before try_wait ran.
C23_Witness ==
  /\ res.op = "wait" /\ res.rc = "Ok" /\ res.via = "upstream"
  /\ pty[res.h].cached_exit_code = res.code
\* ---------------------------------------------------------------- C24
\* Bytes the child may have written that no read has taken yet.
MaxUnread == 1

\* The state after open and one successful spawn on handle 1 by a program
\* whose threads `callers` call the API: the child has PID 1 and runs, slot 1
\* holds it, the handler is installed over the host's disposition.
Spawned(callers, handles) ==
  /\ env \in Hosts
  /\ proc = [p \in Pids |-> IF p = 1
                            THEN [st |-> "run", kind |-> "child", word |-> 0, owner |-> 1]
                            ELSE FreeProc]
  /\ pending = None
  /\ kicked = [t \in callers |-> FALSE]
  /\ disp = "ours"
  /\ mask = [t \in Threads |-> FALSE]
  /\ PID_REGISTRY = [s \in Slots |-> IF s = 1 THEN [pid |-> 1, status |-> SLOT_RUNNING]
                                     ELSE [pid |-> 0, status |-> SLOT_EMPTY]]
  /\ PREV_SIGCHLD_ACTION = env.handler
  /\ pty = [h \in handles |-> IF h = 1
                              THEN [ClosedPty EXCEPT !.open = TRUE, !.child = TRUE,
                                                     !.child_pid = 1]
                              ELSE ClosedPty]
  /\ ct = [t \in callers |-> IdleCaller]
  /\ hs = [t \in Threads |-> IdleHandler]
  /\ res = NoRes
  /\ truth = [h \in handles |-> None]
  /\ first = [h \in handles |-> None]
  /\ count = [spawns |-> 1, aliens |-> 0, overrides |-> 0]

\* The mutex of the handle a write takes, were it the reader's.
write_mutex_shared == "reader"

\* The mutex of the handle each call takes: pty.reader.lock(), pty.writer.lock().
read_mutex == "reader"
write_mutex == "writer"

\* portable_pty_read / portable_pty_write is entered with a buffer: the next
\* step is the lock() of its mutex.
IoStart(t, h, pc) ==
  /\ CanCall(t)
  /\ pty[h].open
  /\ ct' = [ct EXCEPT ![t] = Enter(t, pc, h)]
  /\ res' = NoRes
  /\ UNCHANGED << proc, pending, kicked, disp, mask, env, PID_REGISTRY, PREV_SIGCHLD_ACTION,
                  pty, hs, truth, first, count >>

ReadStart(t, h) == IoStart(t, h, "rd_lock")
WriteStart(t, h) == IoStart(t, h, "wr_lock")

\* lock() returns once the mutex is free (no holder ever panics, so it is
\* never poisoned); the guard is held until the call returns.
IoLock(t, at, mutex, next) ==
  /\ At(t, at)
  /\ pty[ct[t].h][mutex] = ""
  /\ pty' = [pty EXCEPT ![ct[t].h][mutex] = t]
  /\ Goto(t, next)
  /\ UNCHANGED << proc, pending, kicked, disp, mask, env, PID_REGISTRY, PREV_SIGCHLD_ACTION,
                  hs, truth, count >>

ReadLock(t) == IoLock(t, "rd_lock", read_mutex, "rd_io")
WriteLock(t) == IoLock(t, "wr_lock", write_mutex, "wr_io")

\* reader.read(slice) blocks until the child has written something (the handle
\* keeps the slave side open, so there is no end of file), takes it and
\* returns the count; the guard is dropped.
ReadIo(t) ==
  /\ At(t, "rd_io")
  /\ pty[ct[t].h].unread > 0
  /\ pty' = [pty EXCEPT ![ct[t].h].unread = 0, ![ct[t].h][read_mutex] = ""]
  /\ Return(t, "read", ct[t].h, "n", None, "none")
  /\ UNCHANGED << proc, pending, kicked, disp, mask, env, PID_REGISTRY, PREV_SIGCHLD_ACTION,
                  hs, truth, count >>

\* writer.write(slice) and flush: the count, or -1 on an error; the guard is
\* dropped.
WriteIo(t) ==
  /\ At(t, "wr_io")
  /\ pty' = [pty EXCEPT ![ct[t].h][write_mutex] = ""]
  /\ \E rc \in {"n", "-1"} : Return(t, "write", ct[t].h, rc, None, "none")
  /\ UNCHANGED << proc, pending, kicked, disp, mask, env, PID_REGISTRY, PREV_SIGCHLD_ACTION,
                  hs, truth, count >>

\* The child writes to its terminal.
ChildWrites(h) ==
  /\ pty[h].open
  /\ IsRunningChild(proc, pty[h].child_pid)
  /\ pty[h].unread < MaxUnread
  /\ pty' = [pty EXCEPT ![h].unread = @ + 1]
  /\ UNCHANGED << proc, pending, kicked, disp, mask, env, PID_REGISTRY, PREV_SIGCHLD_ACTION,
                  ct, hs, res, truth, first, count >>

\* Two threads read and write on one handle whose child runs.  A write in
\* progress goes on: a thread waiting in writer.lock() gets the mutex when it
\* is free often enough, and the write(2) itself returns.  Nothing makes the
\* child write, so a read may wait for ever.
IoInit == Spawned(Threads, Handles) /\ env = ChainedReaperHost

IoNext ==
  \/ \E t \in Threads, h \in Handles : ReadStart(t, h)
  \/ \E t \in Threads, h \in Handles : WriteStart(t, h)
  \/ \E t \in Threads : ReadLock(t)
  \/ \E t \in Threads : WriteLock(t)
  \/ \E t \in Threads : ReadIo(t)
  \/ \E t \in Threads : WriteIo(t)
  \/ \E h \in Handles : ChildWrites(h)

IoFairness == \A t \in Threads : SF_vars(WriteLock(t)) /\ WF_vars(WriteIo(t))

IoSpec == IoInit /\ [][IoNext]_vars /\ IoFairness

\* The threads performing the read (the write) of handle h.
Reading(h) == {t \in Threads : ct[t].pc = "rd_io" /\ ct[t].h = h}
Writing(h) == {t \in Threads : ct[t].pc = "wr_io" /\ ct[t].h = h}

C24_Exclusion ==
  \A h \in Handles :
    /\ Cardinality(Reading(h)) <= 1
    /\ Cardinality(Writing(h)) <= 1
    /\ \A t \in Reading(h) : pty[h].reader = t /\ pty[h].writer # t
    /\ \A t \in Writing(h) : pty[h].writer = t /\ pty[h].reader # t

\* C24: on one handle at most one thread performs a read and at most one a
\* write at any time, a reading thread holds the reader mutex and not the
\* writer mutex (and a writing thread the converse), and every write in
\* progress returns, also while a read waits for data holding the reader mutex.
C24_TwoLocks ==
  /\ []C24_Exclusion
  /\ \A t \in Threads : (ct[t].pc \in {"wr_lock", "wr_io"}) ~> (ct[t].pc = "idle")

\* One thread waits in read for data that has not come while the other one,
\* having waited for nothing, performs its write.
C24_Witness ==
  /\ ct["T1"].pc = "rd_io" /\ pty[ct["T1"].h].unread = 0
  /\ ct["T2"].pc = "wr_io" /\ ct["T2"].h = ct["T1"].h
\* ---------------------------------------------------------------- C25
\* Two threads call the API, each on a handle of its own that it has opened; a
\* thread spawns on its handle and closes it.  No child ends before the close
\* of its handle kills it.
DuoHandles == 1 .. (NumHandles + 1)
OwnHandle(t) == IF t = "T1" THEN 1 ELSE NumHandles + 1

DuoInit ==
  /\ env = ChainedReaperHost
  /\ proc = [p \in Pids |-> FreeProc]
  /\ pending = None
  /\ kicked = [t \in Threads |-> FALSE]
  /\ disp = env.handler
  /\ mask = [t \in Threads |-> FALSE]
  /\ PID_REGISTRY = [s \in Slots |-> [pid |-> 0, status |-> SLOT_EMPTY]]
  /\ PREV_SIGCHLD_ACTION = "dfl"
  /\ pty = [h \in DuoHandles |-> [ClosedPty EXCEPT !.open = TRUE]]
  /\ ct = [t \in Threads |-> [IdleCaller EXCEPT !.n = 1]]
  /\ hs = [t \in Threads |-> IdleHandler]
  /\ res = NoRes
  /\ truth = [h \in DuoHandles |-> None]
  /\ first = [h \in DuoHandles |-> None]
  /\ count = [spawns |-> 0, aliens |-> 0, overrides |-> 0]

DuoCallerStep(t) ==
  \/ SpawnStart(t, OwnHandle(t))
  \/ EnsureRead(t, "sp")
  \/ EnsureInstall(t, "sp")
  \/ SpawnBlock(t)
  \/ \E p \in Pids : SpawnOk(t, p)
  \/ SpawnErr(t)
  \/ EnsureRead(t, "reg")
  \/ EnsureInstall(t, "reg")
  \/ RegisterCas(t)
  \/ RegisterStore(t)
  \/ SpawnUnblock(t)
  \/ CloseStart(t, OwnHandle(t))
  \/ UnregisterStore(t)
  \/ CloseKill(t)
  \/ CloseWait(t)

DuoNext ==
  \/ \E t \in Threads : DuoCallerStep(t)
  \/ \E t \in Threads : HandlerStep(t)

DuoSpec == DuoInit /\ [][DuoNext]_vars

\* C25: the previous-handler record never holds the library's own handler,
\* for every interleaving of two threads' ensure_sigchld_handler calls.
C25_PrevNeverOurs == PREV_SIGCHLD_ACTION # "ours"
\* ---------------------------------------------------------------- C26
\* The program has a handle with a running child; it goes on to close the
\* handle, open one again and spawn, while the handler runs on another thread.
\* The host is one in which a third party may replace the disposition.
ReuseInit == Spawned(Callers, Handles) /\ env.override

ReuseNext ==
  \/ \E t \in Callers : CallerStep(t)
  \/ \E t \in Threads : HandlerStep(t)
  \/ \E p \in Pids, w \in DeathWords : ChildExit(p, w)
  \/ ThirdPartyInstall

ReuseSpec == ReuseInit /\ [][ReuseNext]_vars

\* The PID a handler run on thread t has read for the slot it is about to
\* write: si_pid in step 1, the slot's pid loaded by the sweep in step 2.
PidRead(t) == IF hs[t].pc = "h1_cas" THEN hs[t].info[1].si_pid ELSE hs[t].pid

C26_Step ==
  \A t \in Threads :
    LET s == hs[t].i
        writes == \/ hs[t].pc = "h1_cas" /\ PID_REGISTRY' # PID_REGISTRY
                  \/ hs[t].pc = "h2_store" /\ hs'[t] # hs[t]
    IN writes => PID_REGISTRY[s].pid \in {0, PidRead(t)}

\* C26: a handler run stores a status only into a slot that still holds the
\* PID the run read for it (or has been released and not claimed again), never
\* into a slot that has since been unregistered and claimed for another PID;
\* so a concrete status found by lookup(P) is the termination status of P.
C26_StoreForOccupant == [][C26_Step]_vars

\* The outcome: a child that is still running has a concrete status in the one
\* slot holding its PID, which is the status of the slot's earlier occupant.
C26_Stale ==
  \E h \in Handles :
    /\ pty[h].child_pid = 2 /\ IsRunningChild(proc, 2)
    /\ lookup_cached_status(2) # None
    /\ Cardinality({s \in Slots : PID_REGISTRY[s].pid = 2}) = 1

\* ---------------------------------------------------------------- C27
\* Thread t is inside register_pid, between its claim of slot s and its store.
Registering(t, s) == ct[t].pc = "reg_store" /\ ct[t].i = s

\* C27: once register_pid has claimed a slot and returned, the slot's status
\* is not SLOT_EMPTY for as long as the slot holds that PID.
C27_ClaimedNotEmpty ==
  \A s \in Slots :
    (PID_REGISTRY[s].pid > 0 /\ ~\E t \in DOMAIN ct : Registering(t, s))
    => PID_REGISTRY[s].status # SLOT_EMPTY
\* ---------------------------------------------------------------- C28
C28_Step ==
  \A h \in Handles :
    (/\ res' # res \/ ct' # ct
     /\ res'.op = "kill" /\ res'.h = h
     /\ res'.via = "killed")
    => /\ IsChild(proc, pty[h].child_pid)
       /\ proc[pty[h].child_pid].owner = h

\* C28: a signal that kill(H, s) delivers goes to the process that is H's own
\* child; a process that a kill on H terminates is the child H holds, never
\* an unrelated process that has the recorded PID after the child was reaped.
C28_KillsOwnChild == [][C28_Step]_vars
\* ---------------------------------------------------------------- C29
\* Every handle that was opened has been closed, and the close has returned.
AllClosed ==
  /\ count.spawns > 0
  /\ \A h \in Handles : ~pty[h].open
  /\ \A t \in Callers : ct[t].pc = "idle"

\* C29: every slot claimed by a spawn on a handle is released by the close of
\* that handle: after every opened handle has been closed no slot holds a
\* PID, whatever was called on the handles before.
C29_AllReleased ==
  AllClosed => \A s \in Slots : PID_REGISTRY[s].pid = 0
\* ---------------------------------------------------------------- C30
\* The positions inside wait and wait_blocking.
WaitPcs == {"w_waitpid", "w_try_wait", "w_fb_waitpid", "w_fb_lookup", "w_fb_probe",
            "wb_wait", "wb_fb_waitpid", "wb_fb_lookup", "wb_fb_probe"}

\* The step is one of a wait, wait_blocking or kill call of thread t: a step
\* inside a wait, the entry into one, or a call that returns in its first step.
C30_StepOf(t) ==
  /\ ct'[t] # ct[t] \/ res' # res
  /\ \/ ct[t].pc \in WaitPcs
     \/ ct[t].pc = "idle" /\ ct'[t].pc \in WaitPcs
     \/ ct[t].pc = "idle" /\ ct'[t].pc = "idle" /\ res'.op \in {"wait", "wait_blocking", "kill"}

\* C30: no step of wait, wait_blocking or kill changes a registry slot; a
\* slot claimed at spawn keeps its pid and status through these calls, also
\* through the one that caches the exit code in the handle.
C30_ReadOnly == [][\A t \in Callers : C30_StepOf(t) => PID_REGISTRY' = PID_REGISTRY]_vars

\* The exit code read from the registry is cached in the handle, and the
\* slot still holds the PID with its concrete status.
C30_Witness ==
  \E h \in Handles :
    /\ res.op \in {"wait", "wait_blocking", "kill"} /\ res.h = h /\ res.via = "registry"
    /\ pty[h].cached_exit_code # None
    /\ Tracked(h)
    /\ Concrete(PID_REGISTRY[FirstSlot(pty[h].child_pid)].status)
====
